---- MODULE Spec2Model ----
(***************************************************************************)
(* A model of go-sockjsclient: the two transports' connections (wsConn of  *)
(* the websocket transport, xhrConn of the XHR polling transport) with     *)
(* their read loops, the websocket timeout watcher, and the application's  *)
(* ReadMsg / WriteMsg / Close calls (specification Spec; SpecFull follows  *)
(* a connection whose inbound channel is nearly full; SpecLive one whose   *)
(* application never reads, under fair scheduling), the Client's           *)
(* connect-with-fallback and Close (SpecClient; SpecSession adds what      *)
(* happens around a Client), and one DialContext call (SpecDial).          *)
(***************************************************************************)
EXTENDS Integers, Sequences, FiniteSets, TLC

\* ------------------------------------------------------------------ bounds
\* frames the server sends to one connection
MaxFrames == 2
\* strings in one Data frame
MaxBatch == 2
\* calls (ReadMsg, WriteMsg, Close) the application makes on one connection
MaxCalls == 2
\* Connect calls each of the two concurrent callers of a Client makes
MaxConnects == 1
\* Close, ReadMsg and WriteMsg calls the application makes on a Client
MaxOps == 2

\* capacity of the inbound channel: make(chan interface{}, 10)
InCap == 10

VARIABLES
    kind,        \* "ws" (wsConn) or "xhr" (xhrConn)
    inq,         \* conn.in: the values buffered in the inbound channel
    ctxDone,     \* conn.ctx is cancelled (conn.cncl was called)
    runPc,       \* position of the run goroutine (run + readLoop + its defer)
    runErr,      \* the error readLoop returns
    pend,        \* the strings of the current Data frame not yet sent on conn.in
    wPc,         \* position of the websocket timeout watcher goroutine
    timerActive, \* the heartbeat timer is armed
    timerC,      \* a value is waiting in timer.C
    closePc,     \* per caller of wsConn.Close: its position inside Close
    wsWriteErr,  \* the websocket's sticky write error
    released,    \* number of calls of conn.conn.Close() (releases of the duplex handle)
    nframes,     \* responses (frames, or statuses other than 200) the loop has received
    nmsgs,       \* strings the server has sent in Data frames
    wrPc,        \* position of the application's WriteMsg call
    nwrites,     \* WriteMsg calls made
    ncloses,     \* application Close calls made
    \* observers (history of what the program did; never read by the program)
    enqLog,      \* every value ever sent on conn.in, in order
    rcvd,        \* concatenation of the string arrays of the Data frames received
    reads,       \* the results of the ReadMsg calls, in order
    closeLog,    \* the results of the Close calls that returned
    writeLog,    \* the results of the WriteMsg calls that returned
    timedOut,    \* the watcher took the timer.C case
    wrLate,      \* the WriteMsg call in progress began after a Close had returned
    closeLate    \* per caller: its Close call in progress began after a Close had returned

connVars == <<kind, inq, ctxDone, runPc, runErr, pend, wPc, timerActive,
              timerC, closePc, wsWriteErr, released, nframes, nmsgs,
              wrPc, nwrites, ncloses, enqLog, rcvd, reads, closeLog, writeLog,
              timedOut, wrLate, closeLate>>

VARIABLES
    addrEmpty,   \* Client.Address is ""
    noWebsocket, \* Client.NoWebsocket
    cConn,       \* Client.conn: 0 (nil) or the connection held
    cInfo,       \* Client.info
    mu,          \* Client.mu: 0 (free) or the holder
    conns,       \* the connections the dials have returned: kind, whether closed,
                 \* and whether its run goroutine has ended
    cpc,         \* per Connect caller: its position in ConnectContext
    cinfo,       \* per Connect caller: the server info its call fetched
    cconn,       \* per Connect caller: the connection its dial returned, 0 if none
    ncon,        \* per Connect caller: Connect calls begun
    clPc,        \* position of the application's Client.Close call
    nops,        \* Client.Close / ReadMsg / WriteMsg calls made
    xdone,       \* the ctx the application passes to ConnectContext is cancelled
    \* observers
    dials,       \* per Connect caller: the dials of its current call, in order
    cret,        \* per Connect caller: what its last Connect call returned
    lastOp       \* the last Client.Close / ReadMsg / WriteMsg call and its result

clientVars == <<addrEmpty, noWebsocket, cConn, cInfo, mu, conns, cpc, cinfo, cconn,
                ncon, clPc, nops, xdone, dials, cret, lastOp>>

VARIABLES
    dPc,         \* position of a DialContext call followed on its own
    dIn,         \* its transport, and what the server answers
    dOut         \* what it returned, and the run goroutines it started

dialVars == <<dPc, dIn, dOut>>

vars == <<connVars, clientVars, dialVars>>

\* ------------------------------------------------------------------ values
\* the callers of wsConn.Close: the application, readLoop's defer, the watcher
Callers == {"app", "run", "watch"}

\* a value of conn.in: a []byte message (numbered in the order the server sent it)
Msg(i) == [t |-> "msg", id |-> i, e |-> "nil"]
\* a value of conn.in: an error
Err(e) == [t |-> "err", id |-> 0, e |-> e]

\* conn.go: the wire frames, by tag and shape of the remainder. (A message of no
\* bytes is drawn by the dials only: in a read loop it panics the run goroutine,
\* which nothing recovers, and the process ends there.)
Frames ==
    [tag : {"h", "o"}, body : {"blank", "junk"}, n : {0}]
    \cup [tag : {"a"}, body : {"strs"}, n : 0..MaxBatch]
    \cup [tag : {"a"}, body : {"junk"}, n : {0}]
    \cup [tag : {"c"}, body : {"pair", "junk"}, n : {0}]
    \cup [tag : {"x"}, body : {"junk"}, n : {0}]

\* a message of no bytes
EmptyFrame == [tag |-> "", body |-> "blank", n |-> 0]

\* parseMessage where a Close frame with a valid payload is no error
parseMessage_CloseNoError(f) ==
    CASE f.tag = ""  -> [mt |-> "none", err |-> "panic"]
      [] f.tag = "h" -> [mt |-> "Heartbeat",
                         err |-> IF f.body # "blank" THEN "invalidResponse" ELSE "nil"]
      [] f.tag = "a" -> [mt |-> "Data", err |-> "nil"]
      [] f.tag = "o" -> [mt |-> "Open",
                         err |-> IF f.body # "blank" THEN "invalidResponse" ELSE "nil"]
      [] f.tag = "c" -> [mt |-> "Close",
                         err |-> IF f.body = "pair" THEN "nil" ELSE "closedByRemote"]
      [] OTHER       -> [mt |-> "Unhandled", err |-> "invalidResponse"]

\* parseMessage: the message type and the error of a frame; switch data[0]
\* panics (index out of range) on a message of no bytes
parseMessage(f) ==
    CASE f.tag = ""  -> [mt |-> "none", err |-> "panic"]
      [] f.tag = "h" -> [mt |-> "Heartbeat",
                         err |-> IF f.body # "blank" THEN "invalidResponse" ELSE "nil"]
      [] f.tag = "a" -> [mt |-> "Data", err |-> "nil"]
      [] f.tag = "o" -> [mt |-> "Open",
                         err |-> IF f.body # "blank" THEN "invalidResponse" ELSE "nil"]
      [] f.tag = "c" -> [mt |-> "Close", err |-> "closedByRemote"]
      [] OTHER       -> [mt |-> "Unhandled", err |-> "invalidResponse"]

\* isWebsocketClosed: a websocket CloseError, ErrCloseSent, or a use of a closed
\* network connection
isWebsocketClosed(err) == err \in {"wsCloseError", "closeSent", "netClosed"}

\* maskCtxCancelled: errors.Is(err, ctx.Err()) replaces err by ErrClosedConnection
maskCtxCancelled(done, err) ==
    IF done /\ err = "ctxCanceled" THEN "closed" ELSE err

\* ids i+1 .. i+n
Ids(i, n) == [k \in 1..n |-> i + k]

\* ------------------------------------------------------------------ construction
\* a connection whose read loop has received k strings in Data frames and sent
\* them on conn.in, the application having made no call yet, and the loop
\* standing at its next read; the frames are counted from this state on
ConnWith(k) ==
    /\ kind \in {"ws", "xhr"}
    /\ inq = [i \in 1..k |-> Msg(i)]
    /\ ctxDone = FALSE
    /\ runPc = "read"
    /\ runErr = "nil"
    /\ pend = <<>>
    /\ wPc = IF kind = "ws" THEN "select" ELSE "done"
    /\ timerActive = (kind = "ws")
    /\ timerC = FALSE
    /\ closePc = [c \in Callers |-> "idle"]
    /\ wsWriteErr = "nil"
    /\ released = 0
    /\ nframes = 0
    /\ nmsgs = k
    /\ wrPc = "idle"
    /\ nwrites = 0
    /\ ncloses = 0
    /\ enqLog = [i \in 1..k |-> Msg(i)]
    /\ rcvd = [i \in 1..k |-> i]
    /\ reads = <<>>
    /\ closeLog = {}
    /\ writeLog = <<>>
    /\ timedOut = FALSE
    /\ wrLate = FALSE
    /\ closeLate = [c \in Callers |-> FALSE]

\* WSDialer.DialContext / XHRDialer.DialContext after a valid Open frame: the
\* connection with an empty inbound channel, a fresh context, and run() started
\* (readLoop creates the timer and starts the watcher before its first read)
ConnInit == ConnWith(0)

\* the two concurrent callers of Client.Connect
Connectors == {1, 2}

\* Client.info unset (nil)
NoInfo == [set |-> FALSE, websocket |-> FALSE, by |-> 0]

\* a Client as the application constructs it: its configuration, no connection,
\* no info, the lock free
ClientInit ==
    /\ addrEmpty \in BOOLEAN
    /\ noWebsocket \in BOOLEAN
    /\ cConn = 0
    /\ cInfo = NoInfo
    /\ mu = 0
    /\ conns = <<>>
    /\ cpc = [p \in Connectors |-> "idle"]
    /\ cinfo = [p \in Connectors |-> NoInfo]
    /\ cconn = [p \in Connectors |-> 0]
    /\ ncon = [p \in Connectors |-> 0]
    /\ clPc = "idle"
    /\ nops = 0
    /\ xdone = FALSE
    /\ dials = [p \in Connectors |-> <<>>]
    /\ cret = [p \in Connectors |-> "none"]
    /\ lastOp = [op |-> "none", conn |-> 0, res |-> "none"]

\* no DialContext call has returned anything
NoDial == [conn |-> FALSE, err |-> "none", loops |-> 0]

\* no DialContext call is followed on its own
DialIdle ==
    /\ dPc = "idle"
    /\ dIn = [tr |-> "xhr", reqOk |-> FALSE, f |-> EmptyFrame]
    /\ dOut = NoDial

\* Spec follows one connection, on its own
Init ==
    /\ ConnInit
    /\ ClientInit
    /\ DialIdle
    /\ ~addrEmpty
    /\ ~noWebsocket

\* SpecClient follows a Client; the connections it holds are in conns
InitClient ==
    /\ ClientInit
    /\ ConnInit
    /\ DialIdle
    /\ kind = "xhr"

\* ------------------------------------------------------------------ the websocket
\* websocket.Conn.WriteMessage, the errors it can return: the sticky write error
\* if one is set; else the write fails on a released handle, and on a handle
\* not released it succeeds or fails on the network
WsWriteResults ==
    IF wsWriteErr # "nil" THEN {wsWriteErr}
    ELSE IF released > 0 THEN {"netClosed"}
    ELSE {"nil", "netErr"}

\* the sticky write error after a write that returned r: a failure stays, and a
\* written close message makes every later write fail with ErrCloseSent
WsWriteErrAfter(r, isClose) ==
    IF r # "nil" THEN r
    ELSE IF isClose THEN "closeSent" ELSE "nil"

\* The timer is time.NewTimer's: timer.C holds one buffered value, which the
\* timer sends when it fires; Stop and Reset leave a value already sent in the
\* channel. (With the synchronous timer channels of Go 1.23 and later, Stop and
\* Reset drop that value and Stop then reports true: every behaviour of such a
\* build is one of this model in which the timer had not yet fired.)
\* time.Timer.Stop: reports whether the call stopped the timer
TimerStopResult == timerActive

\* the environment: the heartbeat timer's period passes
TimerFire ==
    /\ kind = "ws"
    /\ timerActive
    /\ timerActive' = FALSE
    /\ timerC' = TRUE
    /\ UNCHANGED <<kind, inq, ctxDone, runPc, runErr, pend, wPc, closePc,
                   wsWriteErr, released, nframes, nmsgs, wrPc, nwrites,
                   ncloses, enqLog, rcvd, reads, closeLog, writeLog, timedOut,
                   wrLate, closeLate, clientVars, dialVars>>

\* ------------------------------------------------------------------ wsConn.readLoop
\* what readLoop does with a frame ReadMessage returned: parse, switch on the type
LoopOnFrame(f) ==
    LET p == parseMessage(f) IN
    /\ nframes' = nframes + 1
    /\ IF p.err # "nil"
         THEN /\ runErr' = p.err
              /\ runPc' = "dclose"
              /\ UNCHANGED <<pend, rcvd, nmsgs>>
       ELSE IF p.mt = "Heartbeat"
         THEN /\ runPc' = IF kind = "ws" THEN "hb" ELSE "read"
              /\ UNCHANGED <<runErr, pend, rcvd, nmsgs>>
       ELSE IF p.mt = "Data"
         THEN IF f.body # "strs"
                THEN /\ runErr' = "jsonErr"
                     /\ runPc' = "dclose"
                     /\ UNCHANGED <<pend, rcvd, nmsgs>>
                ELSE /\ pend' = Ids(nmsgs, f.n)
                     /\ rcvd' = rcvd \o Ids(nmsgs, f.n)
                     /\ nmsgs' = nmsgs + f.n
                     /\ runPc' = IF f.n = 0 THEN "read" ELSE "enq"
                     /\ UNCHANGED runErr
       ELSE /\ runPc' = "read"
            /\ UNCHANGED <<runErr, pend, rcvd, nmsgs>>

\* readLoop: conn.conn.ReadMessage() returns the next frame of the server
WsReadFrame ==
    /\ kind = "ws"
    /\ runPc = "read"
    /\ released = 0
    /\ nframes < MaxFrames
    /\ \E f \in Frames : LoopOnFrame(f)
    /\ UNCHANGED <<kind, inq, ctxDone, wPc, timerActive, timerC, closePc,
                   wsWriteErr, released, wrPc, nwrites, ncloses, enqLog,
                   reads, closeLog, writeLog, timedOut, wrLate, closeLate,
                   clientVars, dialVars>>

\* readLoop: conn.conn.ReadMessage() fails: on a released handle, on the
\* network, or because the peer closed the websocket (the websocket then answers
\* with its own close message, after which writes fail with ErrCloseSent)
WsReadError ==
    /\ kind = "ws"
    /\ runPc = "read"
    /\ \E e \in {"netClosed", "netErr", "wsCloseError"} :
         /\ e = "netClosed" => released > 0
         /\ e # "netClosed" => released = 0
         /\ runErr' = IF isWebsocketClosed(e) THEN "closed" ELSE e
         /\ wsWriteErr' = IF e = "wsCloseError" /\ wsWriteErr = "nil"
                            THEN "closeSent" ELSE wsWriteErr
    /\ runPc' = "dclose"
    /\ UNCHANGED <<kind, inq, ctxDone, pend, wPc, timerActive, timerC,
                   closePc, released, nframes, nmsgs, wrPc, nwrites, ncloses,
                   enqLog, rcvd, reads, closeLog, writeLog, timedOut, wrLate,
                   closeLate, clientVars, dialVars>>

\* readLoop: heartbeat <- struct{}{} meets the watcher's case <-heartbeat, which
\* resets the timer
Heartbeat ==
    /\ kind = "ws"
    /\ runPc = "hb"
    /\ wPc = "select"
    /\ runPc' = "read"
    /\ timerActive' = TRUE
    /\ timerC' = timerC
    /\ UNCHANGED <<kind, inq, ctxDone, runErr, pend, wPc, closePc, wsWriteErr,
                   released, nframes, nmsgs, wrPc, nwrites, ncloses, enqLog,
                   rcvd, reads, closeLog, writeLog, timedOut, wrLate,
                   closeLate, clientVars, dialVars>>

\* Enqueue with the channel turned into a stack: the message goes to the front
Enqueue_Front ==
    /\ runPc = "enq"
    /\ Len(inq) < InCap
    /\ inq' = <<Msg(Head(pend))>> \o inq
    /\ enqLog' = Append(enqLog, Msg(Head(pend)))
    /\ pend' = Tail(pend)
    /\ runPc' = IF Tail(pend) = <<>> THEN "read" ELSE "enq"
    /\ UNCHANGED <<kind, ctxDone, runErr, wPc, timerActive, timerC, closePc,
                   wsWriteErr, released, nframes, nmsgs, wrPc, nwrites,
                   ncloses, rcvd, reads, closeLog, writeLog, timedOut, wrLate,
                   closeLate, clientVars, dialVars>>

\* readLoop: conn.in <- []byte(msg) for the next string of the Data frame
\* (blocks while the channel is full)
Enqueue ==
    /\ runPc = "enq"
    /\ Len(inq) < InCap
    /\ inq' = Append(inq, Msg(Head(pend)))
    /\ enqLog' = Append(enqLog, Msg(Head(pend)))
    /\ pend' = Tail(pend)
    /\ runPc' = IF Tail(pend) = <<>> THEN "read" ELSE "enq"
    /\ UNCHANGED <<kind, ctxDone, runErr, wPc, timerActive, timerC, closePc,
                   wsWriteErr, released, nframes, nmsgs, wrPc, nwrites,
                   ncloses, rcvd, reads, closeLog, writeLog, timedOut, wrLate,
                   closeLate, clientVars, dialVars>>

\* ------------------------------------------------------------------ the application
\* the calls the application has made on the connection, those in progress included
AppCalls ==
    Len(reads) + nwrites + ncloses
    + (IF wrPc # "idle" THEN 1 ELSE 0) + (IF closePc["app"] # "idle" THEN 1 ELSE 0)

\* ------------------------------------------------------------------ wsConn.Close
\* the caller c is at its call of Close
AtClose(c) ==
    /\ closePc[c] = "idle"
    /\ CASE c = "app" -> AppCalls < MaxCalls
         [] c = "run" -> runPc = "dclose"
         [] c = "watch" -> wPc = "close"

\* Close returns res to its caller c, which goes on; touched: the call wrote a
\* close message or released the handle
CloseRet(c, late, res, touched) ==
    /\ closeLog' = closeLog \cup {[late |-> late, res |-> res, touched |-> touched]}
    /\ closePc' = [closePc EXCEPT ![c] = "idle"]
    /\ closeLate' = [closeLate EXCEPT ![c] = FALSE]
    /\ runPc' = IF c = "run" THEN (IF kind = "ws" THEN "dtimer" ELSE "send") ELSE runPc
    /\ wPc' = IF c = "watch" THEN "enq" ELSE wPc
    /\ ncloses' = IF c = "app" THEN ncloses + 1 ELSE ncloses

\* Close: if conn.ctx.Err() != nil { return nil }
WsCloseCheck(c) ==
    /\ kind = "ws"
    /\ AtClose(c)
    /\ IF ctxDone
         THEN CloseRet(c, closeLog # {}, "nil", FALSE)
         ELSE /\ closePc' = [closePc EXCEPT ![c] = "io"]
              /\ closeLate' = [closeLate EXCEPT ![c] = closeLog # {}]
              /\ UNCHANGED <<closeLog, runPc, wPc, ncloses>>
    /\ UNCHANGED <<kind, inq, ctxDone, runErr, pend, timerActive, timerC,
                   wsWriteErr, released, nframes, nmsgs, wrPc, nwrites,
                   enqLog, rcvd, reads, writeLog, timedOut, wrLate,
                   clientVars, dialVars>>

\* WsCloseIO with cncl called at the end of Close instead of deferred: the early
\* return on an already-closed error leaves the token untriggered
WsCloseIO_CancelNotDeferred(c) ==
    /\ kind = "ws"
    /\ closePc[c] = "io"
    /\ \E r \in WsWriteResults :
         /\ wsWriteErr' = WsWriteErrAfter(r, TRUE)
         /\ IF isWebsocketClosed(r)
              THEN /\ CloseRet(c, closeLate[c], "nil", TRUE)
                   /\ UNCHANGED <<released, ctxDone>>
              ELSE /\ released' = released + 1
                   /\ ctxDone' = TRUE
                   /\ \E ok \in BOOLEAN :
                        /\ released > 0 => ~ok
                        /\ CloseRet(c, closeLate[c], IF ok THEN "nil" ELSE "closing", TRUE)
    /\ UNCHANGED <<kind, inq, runErr, pend, timerActive, timerC, nframes,
                   nmsgs, wrPc, nwrites, enqLog, rcvd, reads, writeLog,
                   timedOut, wrLate, clientVars, dialVars>>

\* Close past its check: the final close message, where an already-closed error
\* returns nil at once and any other error is ignored; then conn.conn.Close(),
\* whose failure is reported as ErrClosingConnection (closing a handle a second
\* time fails); the deferred cncl runs on every return
WsCloseIO(c) ==
    /\ kind = "ws"
    /\ closePc[c] = "io"
    /\ ctxDone' = TRUE
    /\ \E r \in WsWriteResults :
         /\ wsWriteErr' = WsWriteErrAfter(r, TRUE)
         /\ IF isWebsocketClosed(r)
              THEN /\ CloseRet(c, closeLate[c], "nil", TRUE)
                   /\ UNCHANGED released
              ELSE /\ released' = released + 1
                   /\ \E ok \in BOOLEAN :
                        /\ released > 0 => ~ok
                        /\ CloseRet(c, closeLate[c], IF ok THEN "nil" ELSE "closing", TRUE)
    /\ UNCHANGED <<kind, inq, runErr, pend, timerActive, timerC, nframes,
                   nmsgs, wrPc, nwrites, enqLog, rcvd, reads, writeLog,
                   timedOut, wrLate, clientVars, dialVars>>

\* ------------------------------------------------------------------ readLoop's defer, run
\* defer: timer.Stop(); a false result makes the defer drain timer.C, a true one
\* goes on to close(heartbeat) and returns to run. (On the closed heartbeat
\* channel the watcher's case <-heartbeat re-arms the timer for a full period
\* while its ctx.Done case is ready too; select takes a ready case at random, so
\* the watcher returns long before that period passes: that spin is left out.)
RunStopTimer ==
    /\ runPc = "dtimer"
    /\ runPc' = IF TimerStopResult THEN "send" ELSE "ddrain"
    /\ timerActive' = FALSE
    /\ timerC' = timerC
    /\ UNCHANGED <<kind, inq, ctxDone, runErr, pend, wPc, closePc, wsWriteErr,
                   released, nframes, nmsgs, wrPc, nwrites, ncloses, enqLog,
                   rcvd, reads, closeLog, writeLog, timedOut, wrLate,
                   closeLate, clientVars, dialVars>>

\* defer: <-timer.C (blocks until a value is in the channel), then
\* close(heartbeat) and the return to run
RunDrainTimer ==
    /\ runPc = "ddrain"
    /\ timerC
    /\ timerC' = FALSE
    /\ runPc' = "send"
    /\ UNCHANGED <<kind, inq, ctxDone, runErr, pend, wPc, timerActive,
                   closePc, wsWriteErr, released, nframes, nmsgs, wrPc,
                   nwrites, ncloses, enqLog, rcvd, reads, closeLog, writeLog,
                   timedOut, wrLate, closeLate, clientVars, dialVars>>

\* run: conn.in <- maskCtxCancelled(conn.ctx, err) (blocks while the channel is full)
RunSendErr ==
    /\ runPc = "send"
    /\ Len(inq) < InCap
    /\ inq' = Append(inq, Err(maskCtxCancelled(ctxDone, runErr)))
    /\ enqLog' = Append(enqLog, Err(maskCtxCancelled(ctxDone, runErr)))
    /\ runPc' = "done"
    /\ UNCHANGED <<kind, ctxDone, runErr, pend, wPc, timerActive, timerC,
                   closePc, wsWriteErr, released, nframes, nmsgs, wrPc,
                   nwrites, ncloses, rcvd, reads, closeLog, writeLog,
                   timedOut, wrLate, closeLate, clientVars, dialVars>>

\* ------------------------------------------------------------------ the timeout watcher
\* select: case <-conn.ctx.Done(): return
WatchCtxDone ==
    /\ wPc = "select"
    /\ ctxDone
    /\ wPc' = "done"
    /\ UNCHANGED <<kind, inq, ctxDone, runPc, runErr, pend, timerActive,
                   timerC, closePc, wsWriteErr, released, nframes, nmsgs,
                   wrPc, nwrites, ncloses, enqLog, rcvd, reads, closeLog,
                   writeLog, timedOut, wrLate, closeLate, clientVars, dialVars>>

\* select: case <-timer.C: the watcher goes on to conn.Close()
WatchTimeout ==
    /\ wPc = "select"
    /\ timerC
    /\ timerC' = FALSE
    /\ timedOut' = TRUE
    /\ wPc' = "close"
    /\ UNCHANGED <<kind, inq, ctxDone, runPc, runErr, pend, timerActive,
                   closePc, wsWriteErr, released, nframes, nmsgs, wrPc,
                   nwrites, ncloses, enqLog, rcvd, reads, closeLog, writeLog,
                   wrLate, closeLate, clientVars, dialVars>>

\* after conn.Close(): conn.in <- ErrNoHeartbeat (blocks while the channel is full)
WatchEnqueue ==
    /\ wPc = "enq"
    /\ Len(inq) < InCap
    /\ inq' = Append(inq, Err("noHeartbeat"))
    /\ enqLog' = Append(enqLog, Err("noHeartbeat"))
    /\ wPc' = "done"
    /\ UNCHANGED <<kind, ctxDone, runPc, runErr, pend, timerActive, timerC,
                   closePc, wsWriteErr, released, nframes, nmsgs, wrPc,
                   nwrites, ncloses, rcvd, reads, closeLog, writeLog,
                   timedOut, wrLate, closeLate, clientVars, dialVars>>

\* ------------------------------------------------------------------ ReadMsg, WriteMsg
\* ReadMsg: select { case v := <-conn.in ... case <-conn.ctx.Done() ... }; when
\* both cases are ready the select takes either. The entry records whether an
\* application Close had returned, and whether the watcher had closed the
\* connection after a timeout, when the call was made.
ReadMsg ==
    /\ AppCalls < MaxCalls
    /\ \/ /\ inq # <<>>
          /\ reads' = Append(reads, [v |-> Head(inq), closed |-> ncloses > 0,
                                     hb |-> timedOut /\ wPc \in {"enq", "done"}])
          /\ inq' = Tail(inq)
       \/ /\ ctxDone
          /\ reads' = Append(reads, [v |-> Err("closed"), closed |-> ncloses > 0,
                                     hb |-> timedOut /\ wPc \in {"enq", "done"}])
          /\ inq' = inq
    /\ UNCHANGED <<kind, ctxDone, runPc, runErr, pend, wPc, timerActive,
                   timerC, closePc, wsWriteErr, released, nframes, nmsgs,
                   wrPc, nwrites, ncloses, enqLog, rcvd, closeLog, writeLog,
                   timedOut, wrLate, closeLate, clientVars, dialVars>>

\* WriteMsg returns res to the application
WriteRet(late, res) ==
    /\ writeLog' = Append(writeLog, [late |-> late, res |-> res])
    /\ nwrites' = nwrites + 1
    /\ wrPc' = "idle"
    /\ wrLate' = FALSE

\* wsConn.WriteMsg: if conn.ctx.Err() != nil { return ErrClosedConnection }
WsWriteCheck ==
    /\ kind = "ws"
    /\ wrPc = "idle"
    /\ AppCalls < MaxCalls
    /\ IF ctxDone
         THEN WriteRet(ncloses > 0, "closed")
         ELSE /\ wrPc' = "io"
              /\ wrLate' = (ncloses > 0)
              /\ UNCHANGED <<writeLog, nwrites>>
    /\ UNCHANGED <<kind, inq, ctxDone, runPc, runErr, pend, wPc, timerActive,
                   timerC, closePc, wsWriteErr, released, nframes, nmsgs,
                   ncloses, enqLog, rcvd, reads, closeLog, timedOut,
                   closeLate, clientVars, dialVars>>

\* wsConn.WriteMsg: conn.conn.WriteMessage(TextMessage, b); on an error of a
\* connection not yet cancelled, conn.cncl() and the error, an already-closed
\* error wrapped as ErrClosedConnection
WsWriteIO ==
    /\ kind = "ws"
    /\ wrPc = "io"
    /\ \E r \in WsWriteResults :
         /\ wsWriteErr' = WsWriteErrAfter(r, FALSE)
         /\ IF r = "nil"
              THEN /\ WriteRet(wrLate, "nil")
                   /\ UNCHANGED ctxDone
              ELSE IF ctxDone
                THEN /\ WriteRet(wrLate, "closed")
                     /\ UNCHANGED ctxDone
                ELSE /\ ctxDone' = TRUE
                     /\ WriteRet(wrLate, IF isWebsocketClosed(r) THEN "closed" ELSE r)
    /\ UNCHANGED <<kind, inq, runPc, runErr, pend, wPc, timerActive, timerC,
                   closePc, released, nframes, nmsgs, ncloses, enqLog, rcvd,
                   reads, closeLog, timedOut, closeLate, clientVars, dialVars>>

\* ------------------------------------------------------------------ xhrConn
\* XhrOnResponse where status 404 is one more unexpected status
XhrOnResponse_NotFoundUnexpected(status, f) ==
    IF status = 200 THEN LoopOnFrame(f)
    ELSE /\ runErr' = "unexpectedResponse"
         /\ runPc' = "dclose"
         /\ nframes' = nframes + 1
         /\ UNCHANGED <<pend, rcvd, nmsgs>>

\* readLoop: what the loop does with the response of a receive request: status
\* 200 with a frame f in the body, 404, or another status
XhrOnResponse(status, f) ==
    IF status = 200 THEN LoopOnFrame(f)
    ELSE /\ runErr' = IF status = 404 THEN "closed" ELSE "unexpectedResponse"
         /\ runPc' = "dclose"
         /\ nframes' = nframes + 1
         /\ UNCHANGED <<pend, rcvd, nmsgs>>

\* readLoop: one receive request. A cancelled context fails the request; else
\* the request fails on the network, or the response decides
XhrPoll ==
    /\ kind = "xhr"
    /\ runPc = "read"
    /\ \/ /\ ctxDone
          /\ runErr' = "ctxCanceled"
          /\ runPc' = "dclose"
          /\ UNCHANGED <<pend, rcvd, nmsgs, nframes>>
       \/ /\ ~ctxDone
          /\ runErr' = "netErr"
          /\ runPc' = "dclose"
          /\ UNCHANGED <<pend, rcvd, nmsgs, nframes>>
       \/ /\ ~ctxDone
          /\ nframes < MaxFrames
          /\ \E status \in {200, 404, 500}, f \in Frames : XhrOnResponse(status, f)
    /\ UNCHANGED <<kind, inq, ctxDone, wPc, timerActive, timerC, closePc,
                   wsWriteErr, released, wrPc, nwrites, ncloses, enqLog,
                   reads, closeLog, writeLog, timedOut, wrLate, closeLate,
                   clientVars, dialVars>>

\* xhrConn.Close: conn.cncl(); return nil
XhrClose(c) ==
    /\ kind = "xhr"
    /\ c \in {"app", "run"}
    /\ AtClose(c)
    /\ ctxDone' = TRUE
    /\ CloseRet(c, closeLog # {}, "nil", FALSE)
    /\ UNCHANGED <<kind, inq, runErr, pend, timerActive, timerC, wsWriteErr,
                   released, nframes, nmsgs, wrPc, nwrites, enqLog, rcvd,
                   reads, writeLog, timedOut, wrLate, clientVars, dialVars>>

\* xhrConn.WriteMsg: if conn.ctx.Err() != nil { return ErrClosedConnection }
XhrWriteCheck ==
    /\ kind = "xhr"
    /\ wrPc = "idle"
    /\ AppCalls < MaxCalls
    /\ IF ctxDone
         THEN WriteRet(ncloses > 0, "closed")
         ELSE /\ wrPc' = "io"
              /\ wrLate' = (ncloses > 0)
              /\ UNCHANGED <<writeLog, nwrites>>
    /\ UNCHANGED <<kind, inq, ctxDone, runPc, runErr, pend, wPc, timerActive,
                   timerC, closePc, wsWriteErr, released, nframes, nmsgs,
                   ncloses, enqLog, rcvd, reads, closeLog, timedOut,
                   closeLate, clientVars, dialVars>>

\* xhrConn.WriteMsg: the send request. A request error cancels and is masked
\* (the context is cancelled by then); 204 succeeds; 404 and any other status
\* cancel
XhrWriteIO ==
    /\ kind = "xhr"
    /\ wrPc = "io"
    /\ \/ /\ ctxDone
          /\ ctxDone' = TRUE
          /\ WriteRet(wrLate, maskCtxCancelled(TRUE, "ctxCanceled"))
       \/ /\ ~ctxDone
          /\ ctxDone' = TRUE
          /\ WriteRet(wrLate, maskCtxCancelled(TRUE, "netErr"))
       \/ /\ ~ctxDone
          /\ \E status \in {204, 404, 500} :
               /\ ctxDone' = (status # 204)
               /\ WriteRet(wrLate, CASE status = 204 -> "nil"
                                     [] status = 404 -> "closed"
                                     [] OTHER -> "unexpectedResponse")
    /\ UNCHANGED <<kind, inq, runPc, runErr, pend, wPc, timerActive, timerC,
                   closePc, wsWriteErr, released, nframes, nmsgs, ncloses,
                   enqLog, rcvd, reads, closeLog, timedOut, closeLate,
                   clientVars, dialVars>>

\* ------------------------------------------------------------------ specification
Next ==
    \/ TimerFire
    \/ WsReadFrame
    \/ WsReadError
    \/ Heartbeat
    \/ Enqueue
    \/ \E c \in Callers : WsCloseCheck(c)
    \/ \E c \in Callers : WsCloseIO(c)
    \/ RunStopTimer
    \/ RunDrainTimer
    \/ RunSendErr
    \/ WatchCtxDone
    \/ WatchTimeout
    \/ WatchEnqueue
    \/ ReadMsg
    \/ WsWriteCheck
    \/ WsWriteIO
    \/ XhrPoll
    \/ \E c \in Callers : XhrClose(c)
    \/ XhrWriteCheck
    \/ XhrWriteIO

Spec == Init /\ [][Next]_vars

\* ------------------------------------------------------------------ a full channel
\* SpecFull follows a connection whose inbound channel is one short of full,
\* with an application that makes no call but ReadMsg, and a server that sends
\* its heartbeats in time
InitFull ==
    /\ ConnWith(InCap - 1)
    /\ ClientInit
    /\ ~addrEmpty
    /\ ~noWebsocket
    /\ DialIdle

\* the heartbeat timer's period passes. The server sends its heartbeats in time:
\* the period can pass only while the loop does not read them, standing at a
\* send on the full conn.in
TimerFireBlocked ==
    /\ runPc = "enq"
    /\ Len(inq) = InCap
    /\ TimerFire

NextFull ==
    \/ TimerFireBlocked
    \/ WsReadFrame
    \/ WsReadError
    \/ Heartbeat
    \/ Enqueue
    \/ \E c \in {"run", "watch"} : WsCloseCheck(c)
    \/ \E c \in {"run", "watch"} : WsCloseIO(c)
    \/ RunStopTimer
    \/ RunDrainTimer
    \/ RunSendErr
    \/ WatchCtxDone
    \/ WatchTimeout
    \/ WatchEnqueue
    \/ ReadMsg
    \/ XhrPoll
    \/ XhrClose("run")

SpecFull == InitFull /\ [][NextFull]_vars

\* ------------------------------------------------------------------ fair scheduling
\* SpecLive follows a connection whose application makes Close and WriteMsg
\* calls but never calls ReadMsg, from an empty inbound channel or from one with
\* a single free place, under fair scheduling of everything else.
InitLive ==
    /\ \E k \in {0, InCap - 1} : ConnWith(k)
    /\ ClientInit
    /\ ~addrEmpty
    /\ ~noWebsocket
    /\ DialIdle

NextLive ==
    \/ TimerFire
    \/ WsReadFrame
    \/ WsReadError
    \/ Heartbeat
    \/ Enqueue
    \/ \E c \in Callers : WsCloseCheck(c)
    \/ \E c \in Callers : WsCloseIO(c)
    \/ RunStopTimer
    \/ RunDrainTimer
    \/ RunSendErr
    \/ WatchCtxDone
    \/ WatchTimeout
    \/ WatchEnqueue
    \/ WsWriteCheck
    \/ WsWriteIO
    \/ XhrPoll
    \/ \E c \in Callers : XhrClose(c)
    \/ XhrWriteCheck
    \/ XhrWriteIO

\* The goroutines run and the watcher are scheduled fairly: a step of theirs
\* that stays possible is taken. So are the steps that wait for the outside
\* only: an armed timer fires, a ReadMessage or a poll returns (with a frame or
\* an error), and a Close or WriteMsg call that is past its check ends. Nothing
\* makes the application begin a call.
FairLive ==
    /\ WF_vars(TimerFire)
    /\ WF_vars(WsReadFrame \/ WsReadError)
    /\ WF_vars(XhrPoll)
    /\ WF_vars(Heartbeat)
    /\ WF_vars(Enqueue)
    /\ \A c \in {"run", "watch"} : WF_vars(WsCloseCheck(c))
    /\ \A c \in Callers : WF_vars(WsCloseIO(c))
    /\ WF_vars(XhrClose("run"))
    /\ WF_vars(RunStopTimer)
    /\ WF_vars(RunDrainTimer)
    /\ WF_vars(RunSendErr)
    /\ WF_vars(WatchCtxDone)
    /\ WF_vars(WatchTimeout)
    /\ WF_vars(WatchEnqueue)
    /\ WF_vars(WsWriteIO)
    /\ WF_vars(XhrWriteIO)

SpecLive == InitLive /\ [][NextLive]_vars /\ FairLive

\* ------------------------------------------------------------------ Client
\* WebsocketPreferred without the look at the server's info
WebsocketPreferred_IgnoresInfo(p) == ~noWebsocket

\* ConnectContext: if !c.NoWebsocket && info.WebSocket
WebsocketPreferred(p) == ~noWebsocket /\ cinfo[p].websocket

\* WSDialer.DialContext / XHRDialer.DialContext: the dial succeeds when the
\* request succeeds (f is then the first frame received) and that frame parses
\* as a valid Open frame
DialOk(reqOk, f) ==
    reqOk /\ parseMessage(f).err = "nil" /\ parseMessage(f).mt = "Open"

\* ConnectContext begins: GetServerInfo. A failure returns at once:
\* errNoAddressProvided for an empty address, else cannot-connect
ConnectInfo(p) ==
    /\ cpc[p] \in {"idle", "done"}
    /\ ncon[p] < MaxConnects
    /\ ncon' = [ncon EXCEPT ![p] = @ + 1]
    /\ dials' = [dials EXCEPT ![p] = <<>>]
    /\ cconn' = [cconn EXCEPT ![p] = 0]
    /\ \E ok \in BOOLEAN, ws \in BOOLEAN :
         /\ addrEmpty => ~ok
         /\ ~ok => ~ws
         /\ IF ok
              THEN /\ cinfo' = [cinfo EXCEPT ![p] = [set |-> TRUE, websocket |-> ws,
                                                     by |-> p]]
                   /\ cpc' = [cpc EXCEPT ![p] = "ws"]
                   /\ cret' = [cret EXCEPT ![p] = "none"]
              ELSE /\ cinfo' = [cinfo EXCEPT ![p] = NoInfo]
                   /\ cpc' = [cpc EXCEPT ![p] = "done"]
                   /\ cret' = [cret EXCEPT ![p] =
                                 IF addrEmpty THEN "noAddress" ELSE "cannotConnect"]
    /\ UNCHANGED <<addrEmpty, noWebsocket, cConn, cInfo, mu, conns, clPc,
                   nops, xdone, lastOp, connVars, dialVars>>

\* the dial's error: the request's; the panic of parseMessage on a message of
\* no bytes; ErrInvalidResponse for a first frame that is not a valid Open frame
DialErr(reqOk, f) ==
    IF ~reqOk THEN "reqErr"
    ELSE IF parseMessage(f).err = "panic" THEN "panic"
    ELSE IF parseMessage(f).err # "nil" \/ parseMessage(f).mt # "Open"
      THEN "invalidResponse"
    ELSE "nil"

\* the first frames a dial can receive
DialFrames == Frames \cup {EmptyFrame}

\* SpecDial follows one DialContext call of either transport, for every answer
\* of the server
InitDial ==
    /\ ClientInit
    /\ ~addrEmpty
    /\ ~noWebsocket
    /\ ConnInit
    /\ kind = "xhr"
    /\ dPc = "call"
    /\ dIn \in [tr : {"ws", "xhr"}, reqOk : BOOLEAN, f : DialFrames]
    /\ dOut = NoDial

\* WSDialer.DialContext / XHRDialer.DialContext: the websocket handshake, or the
\* initial receive request; its error returns no connection
DialRequest ==
    /\ dPc = "call"
    /\ dPc' = IF dIn.reqOk THEN "first" ELSE "ret"
    /\ dOut' = IF dIn.reqOk THEN dOut
               ELSE [conn |-> FALSE, err |-> DialErr(FALSE, dIn.f), loops |-> 0]
    /\ UNCHANGED <<dIn, connVars, clientVars>>

\* DialContext: the first frame is read and parsed; on a valid Open frame the
\* connection is made and go conn.run() started; an error returns no connection
\* and starts nothing; a panic unwinds the call
DialFirstFrame ==
    /\ dPc = "first"
    /\ dPc' = IF DialErr(TRUE, dIn.f) = "panic" THEN "panic" ELSE "ret"
    /\ dOut' = IF DialErr(TRUE, dIn.f) = "panic" THEN dOut
               ELSE [conn  |-> DialOk(TRUE, dIn.f),
                     err   |-> DialErr(TRUE, dIn.f),
                     loops |-> IF DialOk(TRUE, dIn.f) THEN 1 ELSE 0]
    /\ UNCHANGED <<dIn, connVars, clientVars>>

NextDial ==
    \/ DialRequest
    \/ DialFirstFrame

SpecDial == InitDial /\ [][NextDial]_vars

\* the record of a dial in the history of a Connect call
DialEntry(tr, reqOk, f) == [t |-> tr, ok |-> DialOk(reqOk, f)]

\* the connection a successful dial returns: its own context is
\* context.WithCancel(context.Background()), and go conn.run() is started
NewConn(tr) == [kind |-> tr, closed |-> FALSE, term |-> FALSE]

\* the cancellation token of connection i is triggered: by Close, or by the
\* Close that the read loop defers
TokenTriggered(i) == conns[i].closed \/ conns[i].term

\* ConnectContext: the websocket is not preferred or not available: on to XHR
ConnectSkipWs(p) ==
    /\ cpc[p] = "ws"
    /\ ~WebsocketPreferred(p)
    /\ cpc' = [cpc EXCEPT ![p] = "xhr"]
    /\ UNCHANGED <<addrEmpty, noWebsocket, cConn, cInfo, mu, conns, cinfo,
                   cconn, ncon, clPc, nops, xdone, dials, cret, lastOp,
                   connVars, dialVars>>

\* ConnectWsDial where a failed websocket dial returns cannot-connect at once
ConnectWsDial_NoFallback(p) ==
    /\ cpc[p] = "ws"
    /\ WebsocketPreferred(p)
    /\ \E reqOk \in BOOLEAN, f \in DialFrames :
         /\ xdone => ~reqOk
         /\ dials' = [dials EXCEPT ![p] = Append(@, DialEntry("ws", reqOk, f))]
         /\ IF DialOk(reqOk, f)
              THEN /\ conns' = Append(conns, NewConn("ws"))
                   /\ cconn' = [cconn EXCEPT ![p] = Len(conns) + 1]
                   /\ cpc' = [cpc EXCEPT ![p] = "install"]
                   /\ UNCHANGED cret
              ELSE /\ cpc' = [cpc EXCEPT ![p] = "done"]
                   /\ cret' = [cret EXCEPT ![p] = "cannotConnect"]
                   /\ UNCHANGED <<conns, cconn>>
    /\ UNCHANGED <<addrEmpty, noWebsocket, cConn, cInfo, mu, cinfo, ncon,
                   clPc, nops, xdone, lastOp, connVars, dialVars>>

\* ConnectContext: the websocket dial (made without the lock), which fails when
\* its ctx is cancelled; its failure is kept in wsErr and logged, and the call
\* falls through to XHR. A panic of the dial unwinds the call.
ConnectWsDial(p) ==
    /\ cpc[p] = "ws"
    /\ WebsocketPreferred(p)
    /\ \E reqOk \in BOOLEAN, f \in DialFrames :
         /\ xdone => ~reqOk
         /\ dials' = [dials EXCEPT ![p] = Append(@, DialEntry("ws", reqOk, f))]
         /\ IF DialOk(reqOk, f)
              THEN /\ conns' = Append(conns, NewConn("ws"))
                   /\ cconn' = [cconn EXCEPT ![p] = Len(conns) + 1]
                   /\ cpc' = [cpc EXCEPT ![p] = "install"]
              ELSE /\ cpc' = [cpc EXCEPT ![p] =
                                IF DialErr(reqOk, f) = "panic" THEN "panic" ELSE "xhr"]
                   /\ UNCHANGED <<conns, cconn>>
    /\ UNCHANGED <<addrEmpty, noWebsocket, cConn, cInfo, mu, cinfo, ncon,
                   clPc, nops, xdone, cret, lastOp, connVars, dialVars>>

\* ConnectContext: the XHR dial (made without the lock), which fails when its
\* ctx is cancelled; its failure returns cannot-connect. A panic of the dial
\* unwinds the call.
ConnectXhrDial(p) ==
    /\ cpc[p] = "xhr"
    /\ \E reqOk \in BOOLEAN, f \in DialFrames :
         /\ xdone => ~reqOk
         /\ dials' = [dials EXCEPT ![p] = Append(@, DialEntry("xhr", reqOk, f))]
         /\ IF DialOk(reqOk, f)
              THEN /\ conns' = Append(conns, NewConn("xhr"))
                   /\ cconn' = [cconn EXCEPT ![p] = Len(conns) + 1]
                   /\ cpc' = [cpc EXCEPT ![p] = "install"]
                   /\ UNCHANGED cret
              ELSE IF DialErr(reqOk, f) = "panic"
                THEN /\ cpc' = [cpc EXCEPT ![p] = "panic"]
                     /\ UNCHANGED <<conns, cconn, cret>>
                ELSE /\ cpc' = [cpc EXCEPT ![p] = "done"]
                     /\ cret' = [cret EXCEPT ![p] = "cannotConnect"]
                     /\ UNCHANGED <<conns, cconn>>
    /\ UNCHANGED <<addrEmpty, noWebsocket, cConn, cInfo, mu, cinfo, ncon,
                   clPc, nops, xdone, lastOp, connVars, dialVars>>

\* ConnectInstall where only the connection is assigned
ConnectInstall_ConnOnly(p) ==
    /\ cpc[p] = "install"
    /\ mu = 0
    /\ cConn' = cconn[p]
    /\ cpc' = [cpc EXCEPT ![p] = "done"]
    /\ cret' = [cret EXCEPT ![p] = "nil"]
    /\ UNCHANGED <<addrEmpty, noWebsocket, cInfo, mu, conns, cinfo, cconn,
                   ncon, clPc, nops, xdone, dials, lastOp, connVars, dialVars>>

\* ConnectInstall where the connection held before is closed first
ConnectInstall_ClosesPrevious(p) ==
    /\ cpc[p] = "install"
    /\ mu = 0
    /\ conns' = IF cConn # 0 THEN [conns EXCEPT ![cConn].closed = TRUE] ELSE conns
    /\ cConn' = cconn[p]
    /\ cInfo' = cinfo[p]
    /\ cpc' = [cpc EXCEPT ![p] = "done"]
    /\ cret' = [cret EXCEPT ![p] = "nil"]
    /\ UNCHANGED <<addrEmpty, noWebsocket, mu, cinfo, cconn, ncon, clPc, nops,
                   xdone, dials, lastOp, connVars, dialVars>>

\* ConnectContext: c.mu.Lock(); c.conn = conn; c.info = info; c.mu.Unlock();
\* return nil
ConnectInstall(p) ==
    /\ cpc[p] = "install"
    /\ mu = 0
    /\ cConn' = cconn[p]
    /\ cInfo' = cinfo[p]
    /\ cpc' = [cpc EXCEPT ![p] = "done"]
    /\ cret' = [cret EXCEPT ![p] = "nil"]
    /\ UNCHANGED <<addrEmpty, noWebsocket, mu, conns, cinfo, cconn, ncon,
                   clPc, nops, xdone, dials, lastOp, connVars, dialVars>>

\* the application cancels the ctx it passes to its ConnectContext calls, during
\* a call or after it: no connection is derived from that ctx
CtxCancel ==
    /\ \E p \in Connectors : ncon[p] > 0
    /\ ~xdone
    /\ xdone' = TRUE
    /\ UNCHANGED <<addrEmpty, noWebsocket, cConn, cInfo, mu, conns, cpc,
                   cinfo, cconn, ncon, clPc, nops, dials, cret, lastOp,
                   connVars, dialVars>>

\* the run goroutine of connection i ends: its read loop returned an error, the
\* deferred Close ran, and the error went to conn.in. A connection holds no
\* reference to the Client
ConnRunEnds(i) ==
    /\ i \in DOMAIN conns
    /\ ~conns[i].term
    /\ conns' = [conns EXCEPT ![i].term = TRUE]
    /\ UNCHANGED <<addrEmpty, noWebsocket, cConn, cInfo, mu, cpc, cinfo,
                   cconn, ncon, clPc, nops, xdone, dials, cret, lastOp,
                   connVars, dialVars>>

\* Client.Close: c.mu.Lock()
ClientCloseLock ==
    /\ clPc = "idle"
    /\ nops < MaxOps
    /\ mu = 0
    /\ mu' = 3
    /\ clPc' = "locked"
    /\ UNCHANGED <<addrEmpty, noWebsocket, cConn, cInfo, conns, cpc, cinfo,
                   cconn, ncon, nops, xdone, dials, cret, lastOp, connVars,
                   dialVars>>

\* ClientCloseRun where a failed Close of the connection keeps the fields
ClientCloseRun_KeepOnError ==
    /\ clPc = "locked"
    /\ IF cConn # 0
         THEN /\ conns' = [conns EXCEPT ![cConn].closed = TRUE]
              /\ \E res \in {"nil", "closing"} :
                   /\ res = "closing" => (conns[cConn].kind = "ws" /\ ~TokenTriggered(cConn))
                   /\ lastOp' = [op |-> "Close", conn |-> cConn, res |-> res]
                   /\ cConn' = IF res = "nil" THEN 0 ELSE cConn
                   /\ cInfo' = IF res = "nil" THEN NoInfo ELSE cInfo
         ELSE /\ lastOp' = [op |-> "Close", conn |-> 0, res |-> "nil"]
              /\ UNCHANGED <<conns, cConn, cInfo>>
    /\ mu' = 0
    /\ clPc' = "idle"
    /\ nops' = nops + 1
    /\ UNCHANGED <<addrEmpty, noWebsocket, cpc, cinfo, cconn, ncon, xdone,
                   dials, cret, connVars, dialVars>>

\* Client.Close under the lock: a held connection is closed (the Close of a
\* websocket not yet cancelled may fail releasing its handle) and both fields are
\* cleared; the deferred Unlock
ClientCloseRun ==
    /\ clPc = "locked"
    /\ IF cConn # 0
         THEN /\ conns' = [conns EXCEPT ![cConn].closed = TRUE]
              /\ \E res \in {"nil", "closing"} :
                   /\ res = "closing" => (conns[cConn].kind = "ws" /\ ~TokenTriggered(cConn))
                   /\ lastOp' = [op |-> "Close", conn |-> cConn, res |-> res]
         ELSE /\ lastOp' = [op |-> "Close", conn |-> 0, res |-> "nil"]
              /\ UNCHANGED conns
    /\ cConn' = 0
    /\ cInfo' = NoInfo
    /\ mu' = 0
    /\ clPc' = "idle"
    /\ nops' = nops + 1
    /\ UNCHANGED <<addrEmpty, noWebsocket, cpc, cinfo, cconn, ncon, xdone,
                   dials, cret, connVars, dialVars>>

\* Client.ReadMsg / Client.WriteMsg: conn := c.Conn() (under the lock); not-connected
\* if nil, else the call goes to that connection
ClientReadWrite ==
    /\ nops < MaxOps
    /\ mu = 0
    /\ \E op \in {"ReadMsg", "WriteMsg"} :
         lastOp' = [op |-> op, conn |-> cConn,
                    res |-> IF cConn = 0 THEN "notConnected" ELSE "delegated"]
    /\ nops' = nops + 1
    /\ UNCHANGED <<addrEmpty, noWebsocket, cConn, cInfo, mu, conns, cpc,
                   cinfo, cconn, ncon, clPc, xdone, dials, cret, connVars,
                   dialVars>>

NextClient ==
    \/ \E p \in Connectors : ConnectInfo(p)
    \/ \E p \in Connectors : ConnectSkipWs(p)
    \/ \E p \in Connectors : ConnectWsDial(p)
    \/ \E p \in Connectors : ConnectXhrDial(p)
    \/ \E p \in Connectors : ConnectInstall(p)
    \/ ClientCloseLock
    \/ ClientCloseRun
    \/ ClientReadWrite

SpecClient == InitClient /\ [][NextClient]_vars

\* a Client and what happens around it: the application cancels the ctx of its
\* Connect calls, the run goroutines of the connections end
NextSession ==
    \/ NextClient
    \/ CtxCancel
    \/ \E i \in 1..(2 * MaxConnects) : ConnRunEnds(i)

SpecSession == InitClient /\ [][NextSession]_vars

\* ------------------------------------------------------------------ claims
\* the positions of the terminal error values in the history of conn.in
TerminalAt == {i \in DOMAIN enqLog : enqLog[i].t = "err"}

\* the messages the successful ReadMsg calls returned, in order
RECURSIVE Delivered(_)
Delivered(rs) ==
    IF rs = <<>> THEN <<>>
    ELSE IF Head(rs).v.t = "msg" THEN <<Head(rs).v.id>> \o Delivered(Tail(rs))
    ELSE Delivered(Tail(rs))

\* no Close call is in progress
NoCloseInProgress == \A c \in Callers : closePc[c] = "idle"

\* C1: at most one terminal error value is ever sent on the inbound channel of a
\* connection, over all interleavings of the read loop, the timeout watcher and
\* the application's calls.
C1_AtMostOneTerminal == Cardinality(TerminalAt) <= 1

\* C2: once an application Close() has returned, every later ReadMsg call and
\* every later WriteMsg call returns the closed-connection error, whatever the
\* inbound channel still holds.
C2_ClosedAfterClose ==
    /\ \A i \in DOMAIN reads : reads[i].closed => reads[i].v = Err("closed")
    /\ \A i \in DOMAIN writeLog : writeLog[i].late => writeLog[i].res = "closed"

\* C3: once a ReadMsg call has returned an error, no later ReadMsg call returns
\* a message.
C3_ErrorIsLastRead ==
    \A i, j \in DOMAIN reads :
        (i < j /\ reads[i].v.t = "err") => reads[j].v.t # "msg"

\* C4: once a terminal error value has been sent on the inbound channel, no
\* message is sent on it afterwards.
C4_NoMessageAfterTerminal ==
    \A i, j \in DOMAIN enqLog :
        (i < j /\ enqLog[i].t = "err") => enqLog[j].t # "msg"

\* C5: the messages the successful ReadMsg calls return are, in order and
\* without loss, duplication or reordering, a prefix of the concatenation of
\* the string arrays of the Data frames the read loop received.
C5_DeliveredIsPrefix ==
    LET d == Delivered(reads) IN
    /\ Len(d) <= Len(rcvd)
    /\ \A i \in DOMAIN d : d[i] = rcvd[i]

\* C5 witness: two messages of a connection were delivered, the read loop having
\* received more than it has delivered
C5_Witness ==
    /\ Len(Delivered(reads)) >= 2
    /\ Len(rcvd) > Len(Delivered(reads))

\* C6: on a websocket connection the duplex handle is never released twice, and
\* once the cancellation token is triggered and no Close call is in progress it
\* has been released exactly once.
C6_ReleasedExactlyOnce ==
    kind = "ws" =>
        /\ released <= 1
        /\ (ctxDone /\ NoCloseInProgress) => released = 1

\* C7: Close is idempotent and always effective: once any Close call has
\* returned the cancellation token is triggered, and a Close call that begins
\* after another has returned returns nil without writing a close message or
\* releasing the handle.
C7_CloseIdempotent ==
    /\ closeLog # {} => ctxDone
    /\ \A r \in closeLog : r.late => (r.res = "nil" /\ ~r.touched)
    /\ \A c \in Callers : closePc[c] = "io" => ~closeLate[c]

\* C7 witness: a Close call returned the closing-connection error, and a Close
\* call that began after another had returned has returned
C7_Witness ==
    /\ \E r \in closeLog : r.res = "closing"
    /\ \E r \in closeLog : r.late

\* C8: after the timeout watcher has closed a websocket connection for a missed
\* heartbeat, a ReadMsg call returns a queued message or the no-heartbeat error,
\* never the closed-connection error.
C8_NoHeartbeatOnRead ==
    \A i \in DOMAIN reads :
        reads[i].hb => (reads[i].v.t = "msg" \/ reads[i].v = Err("noHeartbeat"))

\* the Connect call of p made a dial of transport tr
Dialled(p, tr) == \E i \in DOMAIN dials[p] : dials[p][i].t = tr

\* the Connect call of p has returned, having fetched the server's info
ConnectReturned(p) == cpc[p] = "done" /\ cinfo[p].set

\* C9: Connect makes the websocket dial only when the websocket is not disabled
\* and the fetched info reports it; when it is disabled or the server reports
\* websocket:false, no websocket dial is made and only the XHR dial is.
C9_WsDialOnlyWhenPreferred ==
    \A p \in Connectors :
        /\ Dialled(p, "ws") => (~noWebsocket /\ cinfo[p].set /\ cinfo[p].websocket)
        /\ (ConnectReturned(p) /\ (noWebsocket \/ ~cinfo[p].websocket))
             => (Len(dials[p]) = 1 /\ dials[p][1].t = "xhr")

\* C9 witness: a Connect call with the websocket disabled and a server reporting
\* websocket:false has returned after its XHR dial
C9_Witness ==
    \E p \in Connectors :
        /\ ConnectReturned(p)
        /\ noWebsocket
        /\ ~cinfo[p].websocket
        /\ Dialled(p, "xhr")

\* C10: in one Connect call the websocket dial comes before the XHR dial, each is
\* made at most once, the XHR dial is made exactly when the websocket dial was
\* not made or failed, and a failed websocket dial followed by a successful XHR
\* dial makes Connect return nil with the XHR connection.
C10_DialOrderAndFallback ==
    \A p \in Connectors :
        LET d == dials[p] IN
        /\ Len(d) <= 2
        /\ Len(d) = 2 => (d[1].t = "ws" /\ d[2].t = "xhr")
        /\ Dialled(p, "xhr") => (Len(d) = 1 \/ ~d[1].ok)
        /\ (ConnectReturned(p) /\ ~Dialled(p, "xhr"))
             => (Len(d) = 1 /\ d[1].t = "ws" /\ d[1].ok)
        /\ (ConnectReturned(p) /\ Len(d) = 2 /\ d[2].ok)
             => (cret[p] = "nil" /\ cconn[p] # 0 /\ conns[cconn[p]].kind = "xhr")

\* C10 witness: a Connect call whose websocket dial failed and whose XHR dial
\* succeeded has returned nil
C10_Witness ==
    \E p \in Connectors :
        /\ ConnectReturned(p)
        /\ Len(dials[p]) = 2
        /\ ~dials[p][1].ok
        /\ dials[p][2].ok
        /\ cret[p] = "nil"

\* the step is one of the Connect call of p
ConnectStep(p) == cpc'[p] # cpc[p] \/ ncon'[p] # ncon[p]

\* C11: whenever Connect fails it returns a cannot-connect error and installs
\* nothing: a failed info fetch is followed by no dial, a call that fails after
\* the fetch made only failed dials, and no step of the call but the install of
\* a dialled connection changes the Client's connection and info fields.
C11_FailedConnectInstallsNothing ==
    [][\A p \in Connectors :
         ConnectStep(p) =>
           /\ cpc[p] # "install" => (cConn' = cConn /\ cInfo' = cInfo)
           /\ (cpc'[p] = "done" /\ cret'[p] # "nil") =>
                /\ cret'[p] = "cannotConnect"
                /\ ~cinfo'[p].set => dials'[p] = <<>>
                /\ \A i \in DOMAIN dials'[p] : ~dials'[p][i].ok]_vars

\* C12: the Client holds no connection whose run goroutine has ended with its
\* terminal error, and it holds a connection exactly when it holds an info.
C12_DisconnectedOnTerminal ==
    /\ cConn # 0 => ~conns[cConn].term
    /\ cConn = 0 <=> ~cInfo.set

\* C13: Client.Close closes the held connection and clears both fields whether
\* or not that Close returned an error; while the connection field is empty
\* ReadMsg and WriteMsg return not-connected and Close returns nil; and only a
\* Connect call that returns nil fills the field again.
C13_CloseClearsBoth ==
    [][/\ (clPc = "locked" /\ clPc' = "idle") =>
            /\ cConn' = 0
            /\ cInfo' = NoInfo
            /\ cConn # 0 => (conns'[cConn].closed /\ lastOp'.conn = cConn)
       /\ (nops' # nops /\ cConn = 0) =>
            lastOp'.res = IF lastOp'.op = "Close" THEN "nil" ELSE "notConnected"
       /\ (cConn = 0 /\ cConn' # 0) =>
            \E p \in Connectors :
                cpc[p] = "install" /\ cret'[p] = "nil" /\ cConn' = cconn[p]]_vars

\* C13 witness: Client.Close returned the error of the connection's Close, and
\* the Client holds neither connection nor info
C13_Witness ==
    /\ lastOp.op = "Close"
    /\ lastOp.res = "closing"
    /\ conns[lastOp.conn].closed
    /\ cConn = 0
    /\ cInfo = NoInfo

\* Client.Close stands, the lock held, at c.conn.Close() of a websocket connection
\* not yet cancelled: the call that writes the close message and releases the handle
ClientCloseAtIO ==
    /\ clPc = "locked"
    /\ cConn # 0
    /\ conns[cConn].kind = "ws"
    /\ ~TokenTriggered(cConn)

\* C14: no Client operation makes a dial or a transport I/O call while it holds
\* the Client's lock.
C14_NoIOUnderLock ==
    /\ mu # 0 => ~ClientCloseAtIO
    /\ \A p \in Connectors : cpc[p] \in {"ws", "xhr"} => mu # p

\* C15: once the ctx passed to ConnectContext is cancelled, the cancellation
\* token of every connection dialled with it is triggered, as it is after a
\* Close and after the run goroutine has ended.
C15_ExternalCancelTriggers ==
    \A i \in DOMAIN conns :
        (xdone \/ conns[i].closed \/ conns[i].term) => TokenTriggered(i)

\* the server answered the dial with an 'o' followed by white space only
ValidOpen == dIn.f.tag = "o" /\ dIn.f.body = "blank"

\* C17: a dial that received a first frame returns a connection, and starts
\* exactly one run goroutine, if and only if that frame is a valid Open frame;
\* for any other first frame it returns the invalid-response error, no
\* connection, and starts no run goroutine.
C17_DialNeedsOpenFrame ==
    (dIn.reqOk /\ dPc \notin {"call", "first"}) =>
        /\ dPc = "ret"
        /\ dOut.conn <=> ValidOpen
        /\ dOut.loops = IF ValidOpen THEN 1 ELSE 0
        /\ ~ValidOpen => dOut.err = "invalidResponse"

\* the step is a read of the loop that failed (no response was received)
ReadFailed == runPc = "read" /\ runPc' = "dclose" /\ nframes' = nframes

\* C16: an I/O error that is only a symptom of the cancellation is reported as
\* closed-connection: a read of the loop that fails after an application Close
\* has returned fails with a closed-connection error or the context's own
\* error, run sends either on the inbound channel as the closed-connection
\* error, and a WriteMsg whose I/O ends after an application Close has returned
\* returns the closed-connection error.
C16_CancellationMasked ==
    [][/\ (ReadFailed /\ ncloses > 0) => runErr' \in {"closed", "ctxCanceled"}
       /\ (runPc = "send" /\ runPc' = "done" /\ runErr \in {"closed", "ctxCanceled"})
            => enqLog' = Append(enqLog, Err("closed"))
       /\ (wrPc = "io" /\ wrPc' = "idle" /\ ncloses > 0)
            => writeLog'[Len(writeLog')].res = "closed"]_vars

\* the ids of the messages in a history of conn.in
MsgIds(s) ==
    LET m == SelectSeq(s, LAMBDA v : v.t = "msg") IN [i \in DOMAIN m |-> m[i].id]

\* the read loop stands at a send on the full conn.in
Blocked == runPc = "enq" /\ Len(inq) = InCap

\* C18: the inbound channel never holds more than 10 values; every string
\* received has been sent on it or waits in the loop, in order; and while the
\* loop is blocked on the full channel the connection is not cancelled and no
\* terminal error has been sent.
C18_FullQueueIsBackPressure ==
    /\ Len(inq) <= InCap
    /\ MsgIds(enqLog) \o pend = rcvd
    /\ Blocked => (~ctxDone /\ TerminalAt = {})

\* the positions of run after readLoop has returned
Stopped == {"dclose", "dtimer", "ddrain", "send", "done"}

\* the Close frames, of valid and of invalid payload
CloseFrames == {f \in Frames : f.tag = "c"}

\* C19: a Close frame, its payload valid or not, stops the read loop with the
\* closed-by-remote error and sends no message; from then on the loop reads no
\* more, the connection is cancelled once the deferred Close has returned, and
\* the value run sends on the inbound channel is the closed-by-remote error.
C19_CloseFrameIsTerminal ==
    [][/\ (runPc = "read" /\ nframes' = nframes + 1) =>
            \A f \in CloseFrames :
                LoopOnFrame(f) =>
                    /\ runErr' = "closedByRemote"
                    /\ runPc' = "dclose"
                    /\ enqLog' = enqLog
                    /\ pend' = <<>>
       /\ runErr = "closedByRemote" =>
            /\ runPc \in Stopped /\ runPc' \in Stopped
            /\ runPc # "dclose" => ctxDone
            /\ (runPc = "send" /\ runPc' = "done")
                 => enqLog' = Append(enqLog, Err("closedByRemote"))]_vars

\* C19 witness: a websocket connection that had received strings received a
\* Close frame, and run has sent its error
C19_Witness ==
    /\ kind = "ws"
    /\ runErr = "closedByRemote"
    /\ runPc = "done"
    /\ rcvd # <<>>

\* C20: the polling loop on a response: status 200 with a valid Heartbeat frame
\* sends nothing and the loop polls again; status 200 with a Data frame of
\* strings takes them, sends them in order and polls again; status 404 ends the
\* loop with the closed-connection error and any other status with the
\* unexpected-response error, which run then sends on the inbound channel.
C20_PollingClassifies ==
    [][kind = "xhr" =>
        /\ \A status \in {200, 404, 500}, f \in Frames :
             (runPc = "read" /\ nframes' = nframes + 1 /\ XhrOnResponse(status, f)) =>
                /\ (status = 200 /\ f.tag = "h" /\ f.body = "blank") =>
                     (runPc' = "read" /\ enqLog' = enqLog /\ pend' = <<>>)
                /\ (status = 200 /\ f.tag = "a" /\ f.body = "strs") =>
                     /\ pend' = Ids(nmsgs, f.n)
                     /\ runPc' = IF f.n = 0 THEN "read" ELSE "enq"
                /\ status = 404 => (runErr' = "closed" /\ runPc' = "dclose")
                /\ status = 500 => (runErr' = "unexpectedResponse" /\ runPc' = "dclose")
        /\ (runPc = "enq" /\ pend' # pend) =>
             /\ enqLog' = Append(enqLog, Msg(Head(pend)))
             /\ pend' = Tail(pend)
             /\ runPc' = IF pend' = <<>> THEN "read" ELSE "enq"
        /\ (runPc = "send" /\ runPc' = "done" /\ runErr \in {"closed", "unexpectedResponse"})
             => enqLog' = Append(enqLog, Err(runErr))]_vars

\* C20 witness: a polling loop that had sent the strings of a Data frame ended
\* on an unexpected status, and run has sent the unexpected-response error
C20_Witness ==
    /\ kind = "xhr"
    /\ runPc = "done"
    /\ runErr = "unexpectedResponse"
    /\ Len(enqLog) >= 3
    /\ enqLog[Len(enqLog)] = Err("unexpectedResponse")

\* a WriteMsg call has returned an error
WriteFailed == \E i \in DOMAIN writeLog : writeLog[i].res # "nil"

\* C21: on both transports a WriteMsg call cancels the connection's context
\* exactly when the write fails: a write that returns nil leaves the context
\* and the inbound channel as they were, a write that returns an error leaves
\* the context cancelled, and once a WriteMsg has failed every later ReadMsg
\* and WriteMsg returns the closed-connection error.
C21_WriteCancelsOnFailure ==
    [][/\ (wrPc = "io" /\ wrPc' = "idle") =>
            IF writeLog'[Len(writeLog')].res = "nil"
              THEN ctxDone' = ctxDone /\ inq' = inq
              ELSE ctxDone'
       /\ (WriteFailed /\ Len(reads') > Len(reads)) =>
            reads'[Len(reads')].v = Err("closed")
       /\ (WriteFailed /\ Len(writeLog') > Len(writeLog)) =>
            writeLog'[Len(writeLog')].res = "closed"]_vars

\* the step is the install of Connect caller p
InstallStep(p) == cpc[p] = "install" /\ cpc'[p] = "done"

\* C22: when Connect calls overlap, or a Connect is made while a connection is
\* held, each install makes the Client hold the connection of the installing
\* call together with the server info that same call fetched, and leaves every
\* connection as it was: the connection held before is neither closed nor
\* cancelled. The Client's fields change by an install or by the clearing of
\* Close only, and a connection is closed only by a Client.Close that holds it.
C22_LastInstallWins ==
    [][/\ \A p \in Connectors : InstallStep(p) =>
            /\ cConn' = cconn[p]
            /\ cInfo' = cinfo[p]
            /\ cInfo'.by = p
            /\ conns' = conns
       /\ (cConn' # cConn \/ cInfo' # cInfo) =>
            \/ \E p \in Connectors : InstallStep(p)
            \/ cConn' = 0 /\ cInfo' = NoInfo
       /\ \A i \in DOMAIN conns : (TokenTriggered(i)' /\ ~TokenTriggered(i)) =>
            (clPc = "locked" /\ cConn = i)]_vars

\* C22 witness: two overlapping Connect calls both dialled with success and
\* both returned nil; caller 1 dialled first and installed last, the Client
\* holds its connection with its server info, and the connection of caller 2 is
\* neither closed nor cancelled
C22_Witness ==
    /\ \A p \in Connectors : cpc[p] = "done" /\ cret[p] = "nil"
    /\ cconn[1] = 1
    /\ cconn[2] = 2
    /\ nops = 0
    /\ cConn = 1
    /\ cInfo.by = 1
    /\ ~TokenTriggered(2)

\* C23: in every state of a Client in which its lock is free, the connection
\* and the server info are both set or both empty, over all interleavings of
\* Connect, Close, ReadMsg and WriteMsg calls; and the server info held is one
\* that a Connect call fetched.
C23_ConnAndInfoTogether ==
    mu = 0 => /\ (cConn # 0) <=> cInfo.set
              /\ cInfo.set => cInfo.by \in Connectors

\* C23 witness: a Close has cleared the fields of a Client that held a
\* connection, which it closed, and a later install has set both again
C23_Witness ==
    /\ mu = 0
    /\ cConn # 0
    /\ cInfo.set
    /\ lastOp.op = "Close"
    /\ lastOp.conn \notin {0, cConn}
    /\ conns[lastOp.conn].closed

\* the background goroutines of the connection have returned: run, and the
\* timeout watcher of a websocket
TasksEnded == runPc = "done" /\ wPc = "done"

\* C24: once the context of a connection is cancelled, its background
\* goroutines eventually return under fair scheduling, although the application
\* never calls ReadMsg.
C24_TasksEndAfterCancel == ctxDone ~> TasksEnded

====
